---- MODULE Spec2Model ----
(***************************************************************************)
(* Model of the Sber transcription client of claude-telegram-bot:          *)
(*   src/src/services/sber-transcription.ts  (SberTranscriptionService)    *)
(* The token cache (cachedToken, tokenExpiry), getAuthToken and            *)
(* transcribeWithRetry are modelled as a state machine in which several    *)
(* transcribe calls run on one service object.  Every await is a point      *)
(* where other calls may move: the awaits of the two requests (lines 54,   *)
(* 96), and the await of line 92, which yields also when getAuthToken      *)
(* returned the cached token at once.  The catch block that retries runs   *)
(* in a step of its own after the request has failed; so does the catch    *)
(* block that takes the rejection of getAuthToken, after getAuthToken has  *)
(* resumed, written what it writes and thrown.  The clock moves only       *)
(* while no continuation is waiting to run.                                *)
(* The text extraction of lines 105-125 is the operator ExtractText, and   *)
(* is also exercised on its own by the specification SpecText.             *)
(* SpecLive is Spec with every request ending (the timeouts of lines 56    *)
(* and 101).  The other parts of the bot have a specification each:        *)
(*   SpecConv    AudioConverter.convertOggToMp3 (one conversion)           *)
(*   SpecVoice   src/src/utils.ts transcribeVoice: read, convert,          *)
(*               transcribe, for every configuration of the module         *)
(*   SpecIntr    src/src/utils.ts checkInterrupt and the session           *)
(*   SpecTyping  src/src/utils.ts startTypingIndicator and its controller  *)
(***************************************************************************)
EXTENDS Integers, Sequences, FiniteSets, TLC

\* ------------------------------------------------------------------ bounds

\* Number of transcribe calls made on the service.
MaxCalls == 3
\* The clock may advance this many steps.
MaxTicks == 1
\* SpecText: longest string, and longest array, of a recognition result.
MaxLen == 2
MaxArr == 2
\* SpecConv: number of events the transcoder and its stream emit.
MaxEvents == 4
\* SpecIntr: longest text checkInterrupt is called with.
MaxText == 3
\* SpecTyping: number of typing indicators started.
MaxIndicators == 3

\* --------------------------------------------------------------- constants

AUTH_TIMEOUT == 30000
SPEECH_TIMEOUT == 30000
\* the "5 minute buffer" of line 34
TOKEN_BUFFER == 300000
\* the default of line 63 (seconds), and the factor of line 64
DEFAULT_EXPIRES_IN == 1800
MS_PER_SEC == 1000

\* The clock advances in steps of one safety margin, so a request still in
\* flight after a step has passed its 30 s timeout.
TickMs == TOKEN_BUFFER

\* The calls that can be in flight at once: the promise of one transcribe
\* call each.  A settled one makes room for the next call.
Calls == {1, 2}

\* null / undefined / "" for the token (only its truthiness is read), and
\* null for the expiry.  Date.now() is counted from the construction of the
\* service, so every expiry the code computes is >= 0.
NoToken == 0
Null == -1
\* a field the response omits
Absent == -1

\* HTTP outcomes of a request: a status, or no response at all
\* (connection failure, or the axios timeout).
NoResponse == 0
Statuses == {200, 401, 500, NoResponse}

\* expires_at values the OAuth server may send (seconds)
Lifetimes == {Absent, 0, 20, 600}

\* a 2xx OAuth response whose body is null: response.data has no fields
NoData == -2
\* what line 60 and 63 find in a 2xx OAuth response
Expirations == Lifetimes \cup {NoData}

\* ------------------------------------------------------------------ strings

\* A JavaScript string is a sequence of characters; " " is whitespace.
Chars == {"a", "b", " "}
IsSpace(ch) == ch = " "

RECURSIVE SeqsUpTo(_, _)
SeqsUpTo(S, n) ==
  IF n = 0 THEN {<< >>}
  ELSE LET shorter == SeqsUpTo(S, n - 1)
       IN  shorter \cup {Append(s, x) : s \in {t \in shorter : Len(t) = n - 1}, x \in S}

RECURSIVE TrimStart(_)
TrimStart(s) ==
  IF s # << >> /\ IsSpace(Head(s)) THEN TrimStart(Tail(s)) ELSE s

RECURSIVE TrimEnd(_)
TrimEnd(s) ==
  IF s # << >> /\ IsSpace(s[Len(s)]) THEN TrimEnd(SubSeq(s, 1, Len(s) - 1)) ELSE s

\* String.prototype.trim
Trim(s) == TrimEnd(TrimStart(s))

\* a join with no separator
RECURSIVE JoinTight(_)
JoinTight(a) ==
  IF a = << >> THEN << >> ELSE a[1] \o JoinTight(Tail(a))

\* Array.prototype.join(' ')
RECURSIVE Join(_)
Join(a) ==
  IF a = << >> THEN << >>
  ELSE IF Len(a) = 1 THEN a[1]
  ELSE a[1] \o <<" ">> \o Join(Tail(a))

\* response.data?.result: a string, an array of strings, absent, or a value
\* of another type (number, object, null)
StrResult(s) == [kind |-> "string", s |-> s, a |-> << >>]
ArrResult(a) == [kind |-> "array", s |-> << >>, a |-> a]
AbsentResult == [kind |-> "absent", s |-> << >>, a |-> << >>]
OtherResult == [kind |-> "other", s |-> << >>, a |-> << >>]

\* lines 109-115
RawText(result) ==
  IF result.kind = "string" THEN result.s
  ELSE IF result.kind = "array" /\ Len(result.a) > 0 THEN Join(result.a)
  ELSE << >>

\* a check that forgets the trim
NoSpeechUntrimmed(text) == text = << >>

\* lines 119-125
NoSpeech(text) == text = << >> \/ Len(Trim(text)) = 0

\* lines 105-125: the text a 2xx recognition response yields
ExtractText(result) ==
  LET text == RawText(result)
  IN  IF NoSpeech(text) THEN << >> ELSE text

\* ------------------------------------------------------------------- errors

\* A thrown value: an AxiosError (with the response status, NoResponse when
\* there was none) or a plain Error; msg is the message, a list of parts.
AxiosMessage(st) ==
  CASE st = 401 -> "Request failed with status code 401"
    [] st = 500 -> "Request failed with status code 500"
    [] OTHER -> "timeout or network error"

AxiosError(st) == [axios |-> TRUE, status |-> st, msg |-> <<AxiosMessage(st)>>]
PlainError(msg) == [axios |-> FALSE, status |-> NoResponse, msg |-> msg]

\* a getAuthToken that lets the error of the OAuth request through
Rethrow(e) == e

\* lines 73-77: getAuthToken rethrows whatever failed as a new plain Error
AuthError(e) == PlainError(<<"Sber authentication failed">> \o e.msg)

\* lines 141-143
TranscriptionError(e) == PlainError(<<"Sber transcription failed">> \o e.msg)

\* line 128
Is401(e) == e.axios /\ e.status = 401

\* a catch block that retries every 401, also the one of the retry
RetryEvery401(e, retry) == Is401(e)

\* a catch block that retries every failed request
RetryEveryAxiosError(e, retry) == e.axios /\ ~retry

\* lines 128-129: the catch block retries on a 401 of the first attempt
ShouldRetry(e, retry) == Is401(e) /\ ~retry

\* ------------------------------------------------------------------- state

VARIABLES
  cachedToken,  \* the service's cachedToken field (NoToken when falsy)
  tokenExpiry,  \* the service's tokenExpiry field (Null, or ms)
  now,          \* Date.now()
  issued,       \* OAuth server: number of tokens issued so far (token ids)
  started,      \* number of transcribe calls made so far
  lastWriter,   \* history: the call in flight that last wrote the cache fields (0: none)
  pc,           \* per call: "idle", "oauth", "authFailed", "token", "recog",
                \* "caught", "done"
  isRetry,      \* per call: the isRetry argument of the running attempt
  token,        \* per call: the local token of the running attempt
  sentAt,       \* per call: when the request in flight was sent
  log,          \* per call, history: what the call did, in order
  outcome,      \* per call: what transcribe returned or threw
  textDone,     \* SpecText: lines 105-125 have run
  result,       \* SpecText: the result field of a recognition response
  text          \* SpecText: what lines 105-125 return for it

\* AudioConverter.convertOggToMp3: one conversion
VARIABLES
  promise,      \* the promise convertOggToMp3 returns: state and value
  chunks,       \* the chunks array of the conversion
  evs           \* history: the events the transcoder and its stream emitted

convVars == <<promise, chunks, evs>>

\* utils.ts: the transcription client and transcribeVoice
VARIABLES
  secret,             \* SBER_CLIENT_SECRET is truthy
  available,          \* TRANSCRIPTION_AVAILABLE is truthy
  sberTranscription,  \* the service object was constructed (FALSE: null)
  audioConverter,     \* the converter object was constructed (FALSE: null)
  vpc,                \* transcribeVoice: "idle", "read", "convert", "transcribe", "done"
  vret,               \* transcribeVoice: what the call returned or threw
  vlog                \* history: the steps the running transcribeVoice call took

voiceVars == <<secret, available, sberTranscription, audioConverter, vpc, vret, vlog>>

\* utils.ts: checkInterrupt and the session it drives
VARIABLES
  itext,          \* checkInterrupt: the text argument
  ipc,            \* checkInterrupt: "idle", "import", "stopping", "sleeping", "done"
  sessionModule,  \* the session module has been imported (FALSE: null)
  isRunning,      \* session.isRunning
  sawRunning,     \* history: what line 234 read ("unread", "yes", "no")
  calls,          \* history: the session operations of the running call
  iret            \* checkInterrupt: what the call returned or threw

intrVars == <<itext, ipc, sessionModule, isRunning, sawRunning, calls, iret>>

\* utils.ts: the typing indicators
VARIABLES
  tpc,          \* per indicator: "none", "acting", "sleeping", "exited"
  running,      \* per indicator: the running variable of its closure
  stopped,      \* per indicator, history: stop() has been called
  lastFailed    \* per indicator, history: its last typing action failed

typingVars == <<tpc, running, stopped, lastFailed>>

botVars == <<intrVars, typingVars>>

\* the state of utils.ts and of the converter
utilVars == <<convVars, voiceVars, botVars>>

vars == <<cachedToken, tokenExpiry, now, issued, started, lastWriter, pc,
          isRetry, token, sentAt, log, outcome, result, text, textDone, utilVars>>

\* An entry of a call's log: what happened, the token concerned, and the
\* status of a response.
Ev(e, t, s) == [ev |-> e, tok |-> t, st |-> s]

NoOutcome == [kind |-> "none", text |-> << >>, msg |-> << >>]
TextOutcome(t) == [kind |-> "text", text |-> t, msg |-> << >>]
ErrorOutcome(e) == [kind |-> "error", text |-> << >>, msg |-> e.msg]

\* Recognition results the server sends in Spec (SpecText sends them all)
SpecBodies == {StrResult(<<"a">>), ArrResult(<< >>)}

\* the bodies that come with status st: the body of a response other than
\* 2xx is not read (line 96 throws)
BodiesOf(st) == IF st = 200 THEN SpecBodies ELSE {AbsentResult}

\* a check that also hands out the cache while some call's OAuth request is
\* in flight
CacheValidOrRefreshing(ct, te, t) ==
  \/ ct # NoToken /\ te # Null /\ te # 0 /\ t < te - TOKEN_BUFFER
  \/ \E d \in Calls : pc[d] = "oauth"

\* a check that subtracts the buffer twice
CacheValidWideBuffer(ct, te, t) ==
  ct # NoToken /\ te # Null /\ te # 0 /\ t < te - 2 * TOKEN_BUFFER

\* line 34: the cached token is returned when both fields are truthy and the
\* expiry is more than the buffer away
CacheValid(ct, te, t) ==
  ct # NoToken /\ te # Null /\ te # 0 /\ t < te - TOKEN_BUFFER

\* line 63
ExpiresIn(expires_at) ==
  IF expires_at = Absent \/ expires_at = 0 THEN DEFAULT_EXPIRES_IN ELSE expires_at

\* line 64
NewExpiry(t, expires_at) == t + ExpiresIn(expires_at) * MS_PER_SEC

InitProto ==
  /\ cachedToken = NoToken
  /\ tokenExpiry = Null
  /\ now = 0
  /\ issued = 0
  /\ started = 0
  /\ lastWriter = 0
  /\ pc = [c \in Calls |-> "idle"]
  /\ isRetry = [c \in Calls |-> FALSE]
  /\ token = [c \in Calls |-> NoToken]
  /\ sentAt = [c \in Calls |-> 0]
  /\ log = [c \in Calls |-> << >>]
  /\ outcome = [c \in Calls |-> NoOutcome]

\* A promise: "none" before the call, then pending until the first resolve
\* or reject; buf is the buffer it resolved with, msg the message of the
\* error it rejected with.
NoPromise == [state |-> "none", buf |-> << >>, msg |-> << >>]
Pending == [state |-> "pending", buf |-> << >>, msg |-> << >>]
Resolved(b) == [state |-> "resolved", buf |-> b, msg |-> << >>]
Rejected(m) == [state |-> "rejected", buf |-> << >>, msg |-> m]

\* no conversion has been asked for
InitConv ==
  /\ promise = NoPromise
  /\ chunks = << >>
  /\ evs = << >>

\* what transcribeVoice returns: null or a text; "throw" is a rejection
VoiceNone == [kind |-> "none", text |-> << >>]
VoiceNull == [kind |-> "null", text |-> << >>]
VoiceText(t) == [kind |-> "text", text |-> t]
VoiceThrow == [kind |-> "throw", text |-> << >>]

\* a module that builds the objects whenever the secret is set
ConstructedOnSecret(sec, avail) == sec

\* utils.ts line 24
Constructed(sec, avail) == sec /\ avail

\* utils.ts lines 21-27, for the configuration sec, avail
InitVoice(sec, avail) ==
  /\ secret = sec
  /\ available = avail
  /\ sberTranscription = Constructed(sec, avail)
  /\ audioConverter = Constructed(sec, avail)
  /\ vpc = "idle"
  /\ vret = VoiceNone
  /\ vlog = << >>

\* what checkInterrupt returns: a text; "throw" is a rejection
IntrNone == [kind |-> "none", text |-> << >>]
IntrText(t) == [kind |-> "text", text |-> t]
IntrThrow == [kind |-> "throw", text |-> << >>]

\* utils.ts lines 213-220: the session module is not loaded; no
\* checkInterrupt call is running.  The session runs a query or not.
InitIntr(r) ==
  /\ itext = << >>
  /\ ipc = "idle"
  /\ sessionModule = FALSE
  /\ isRunning = r
  /\ sawRunning = "unread"
  /\ calls = << >>
  /\ iret = IntrNone

Indicators == 1..MaxIndicators

\* no typing indicator has been started
InitTyping ==
  /\ tpc = [i \in Indicators |-> "none"]
  /\ running = [i \in Indicators |-> FALSE]
  /\ stopped = [i \in Indicators |-> FALSE]
  /\ lastFailed = [i \in Indicators |-> FALSE]

\* the module state with transcription configured
InitUtil ==
  /\ InitConv
  /\ InitVoice(TRUE, TRUE)
  /\ InitIntr(FALSE)
  /\ InitTyping

\* ------------------------------------------------------------ one attempt

\* line 92 up to the first await, entered with the cache fields ct, te
\* (last written by lw) and the call's log lg: getAuthToken returns the
\* cached token (lines 34-37) and the await of line 92 yields with it, or
\* the OAuth request is sent (lines 40-58).
BeginAttempt(c, retry, ct, te, lw, lg) ==
  /\ cachedToken' = ct
  /\ tokenExpiry' = te
  /\ lastWriter' = lw
  /\ isRetry' = [isRetry EXCEPT ![c] = retry]
  /\ sentAt' = [sentAt EXCEPT ![c] = now]
  /\ outcome' = [outcome EXCEPT ![c] = NoOutcome]
  /\ IF CacheValid(ct, te, now)
     THEN /\ pc' = [pc EXCEPT ![c] = "token"]
          /\ token' = [token EXCEPT ![c] = ct]
          /\ log' = [log EXCEPT ![c] = lg \o <<Ev("cache", ct, 0)>>]
     ELSE /\ pc' = [pc EXCEPT ![c] = "oauth"]
          /\ token' = [token EXCEPT ![c] = NoToken]
          /\ log' = [log EXCEPT ![c] = lg \o <<Ev("oauthReq", NoToken, 0)>>]

\* the promise of transcribe settles: lines 122, 125 (a text) or 143 (an error)
Settle(c, out, ct, te, lw, lg) ==
  /\ cachedToken' = ct
  /\ tokenExpiry' = te
  /\ lastWriter' = lw
  /\ pc' = [pc EXCEPT ![c] = "done"]
  /\ isRetry' = isRetry
  /\ token' = token
  /\ sentAt' = [sentAt EXCEPT ![c] = 0]
  /\ log' = [log EXCEPT ![c] = lg]
  /\ outcome' = [outcome EXCEPT ![c] = out]

\* a retry that keeps the rejected token in the cache
NoInvalidate(ct, te) == [tok |-> ct, exp |-> te]

\* lines 132-133: both cache fields are cleared
Invalidate(ct, te) == [tok |-> NoToken, exp |-> Null]

\* getAuthToken rejects (lines 69, 73-77), the cache fields being ct, te
\* (last written by lw): the await of line 92 yields, and the catch block
\* of lines 126-144 runs in a later microtask.
Rejects(c, ct, te, lw, lg) ==
  /\ cachedToken' = ct
  /\ tokenExpiry' = te
  /\ lastWriter' = lw
  /\ pc' = [pc EXCEPT ![c] = "authFailed"]
  /\ sentAt' = [sentAt EXCEPT ![c] = now]
  /\ log' = [log EXCEPT ![c] = lg]
  /\ UNCHANGED <<isRetry, token, outcome>>

\* The catch block of lines 126-144 for the error e, the cache fields being
\* ct, te (last written by lw).  When it will retry (lines 128-129) the call
\* is in "caught" until lines 130-135 have run; otherwise it only throws
\* (lines 141-143), which settles the promise of the call.
HandleError(c, e, ct, te, lw, lg) ==
  IF ShouldRetry(e, isRetry[c])
  THEN /\ cachedToken' = ct
       /\ tokenExpiry' = te
       /\ lastWriter' = lw
       /\ pc' = [pc EXCEPT ![c] = "caught"]
       /\ sentAt' = [sentAt EXCEPT ![c] = now]
       /\ log' = [log EXCEPT ![c] = lg]
       /\ UNCHANGED <<isRetry, token, outcome>>
  ELSE \* lines 141-143
       Settle(c, ErrorOutcome(TranscriptionError(e)), ct, te, lw, lg)

\* ---------------------------------------------------------------- actions

\* Calls are interchangeable: the calls in flight hold the first places, in
\* the order in which they were made, and a new call takes the first free
\* place.  The record of a settled call (history, not state of the service)
\* is dropped as soon as the call has settled, before anything else happens.

\* no settled call is waiting to be dropped
Collected == \A d \in Calls : pc[d] # "done"

Free(c) ==
  /\ Collected
  /\ pc[c] = "idle"
  /\ \A d \in Calls : d < c => pc[d] # "idle"

\* the calls in flight, and the place each of them moves to
Kept == {c \in Calls : pc[c] \notin {"idle", "done"}}
Rank(c) == Cardinality({d \in Kept : d <= c})

\* the per-call field f after the move, an empty place holding empty
Moved(f, empty) ==
  [p \in Calls |-> IF \E c \in Kept : Rank(c) = p
                   THEN f[CHOOSE c \in Kept : Rank(c) = p]
                   ELSE empty]

\* The caller is done with the settled calls: their records are dropped and
\* the calls in flight move up to the first places.
Forget ==
  /\ \E c \in Calls : pc[c] = "done"
  /\ pc' = Moved(pc, "idle")
  /\ isRetry' = Moved(isRetry, FALSE)
  /\ token' = Moved(token, NoToken)
  /\ sentAt' = Moved(sentAt, 0)
  /\ log' = Moved(log, << >>)
  /\ outcome' = Moved(outcome, NoOutcome)
  /\ lastWriter' = IF lastWriter \in Kept THEN Rank(lastWriter) ELSE 0
  /\ UNCHANGED <<cachedToken, tokenExpiry, now, issued, started,
                 result, text, textDone, utilVars>>

\* transcribe(audioBuffer), lines 83-85
Start(c) ==
  /\ started < MaxCalls
  /\ Free(c)
  /\ started' = started + 1
  /\ BeginAttempt(c, FALSE, cachedToken, tokenExpiry, lastWriter, << >>)
  /\ UNCHANGED <<now, issued, result, text, textDone, utilVars>>

\* requests sent without a timeout: nothing ends a request the server has
\* not answered in time
ArrivesIfAnswered(c, st, timeout) == now - sentAt[c] < timeout

\* A response within the timeout, or a failure with no response.
Arrives(c, st, timeout) == st = NoResponse \/ now - sentAt[c] < timeout

\* The OAuth request of call c ends (line 54 returns or throws): status st,
\* and for a 2xx a body with or without access_token, and with expires_at
\* (NoData: the body is null).  The body of any other response is not read.
OAuthResponse(c, st, hasToken, expires_at) ==
  /\ pc[c] = "oauth"
  /\ Collected
  /\ Arrives(c, st, AUTH_TIMEOUT)
  /\ expires_at = NoData => ~hasToken
  /\ st # 200 => (~hasToken /\ expires_at = Absent)
  /\ IF st = 200 /\ expires_at = NoData
     THEN \* line 60 throws a TypeError before either field is written
          /\ issued' = issued
          /\ Rejects(c, cachedToken, tokenExpiry, lastWriter,
                     log[c] \o <<Ev("oauthFail", NoToken, st)>>)
     ELSE IF st = 200
     THEN LET tok == IF hasToken THEN issued + 1 ELSE NoToken
              exp == NewExpiry(now, expires_at)
              lg == log[c] \o <<Ev("oauthOk", tok, st)>>
          IN  \* lines 60-64 write both fields before the check of line 68
              /\ issued' = IF hasToken THEN issued + 1 ELSE issued
              /\ IF tok = NoToken
                 THEN \* line 69 throws
                      Rejects(c, tok, exp, c, lg)
                 ELSE \* line 72: the token is returned to the await of line 92
                      /\ cachedToken' = tok
                      /\ tokenExpiry' = exp
                      /\ lastWriter' = c
                      /\ pc' = [pc EXCEPT ![c] = "token"]
                      /\ token' = [token EXCEPT ![c] = tok]
                      /\ sentAt' = [sentAt EXCEPT ![c] = now]
                      /\ log' = [log EXCEPT ![c] = lg]
                      /\ UNCHANGED <<isRetry, outcome>>
     ELSE /\ issued' = issued
          /\ Rejects(c, cachedToken, tokenExpiry, lastWriter,
                     log[c] \o <<Ev("oauthFail", NoToken, st)>>)
  /\ UNCHANGED <<now, started, result, text, textDone, utilVars>>

\* the error getAuthToken threw (line 76), from the last entry of the log:
\* a 2xx body without access_token (line 69), a null 2xx body (line 60), or
\* the failure of the request (line 54)
AuthFailure(ev) ==
  IF ev.ev = "oauthOk"
  THEN AuthError(PlainError(<<"Failed to obtain access token">>))
  ELSE IF ev.st = 200
  THEN AuthError(PlainError(<<"Cannot read properties of null">>))
  ELSE AuthError(AxiosError(ev.st))

\* The await of line 92 resumes with the rejection of getAuthToken: the
\* catch block of lines 126-144 runs.
CatchAuthError(c) ==
  /\ pc[c] = "authFailed"
  /\ Collected
  /\ HandleError(c, AuthFailure(log[c][Len(log[c])]), cachedToken, tokenExpiry,
                 lastWriter, log[c])
  /\ UNCHANGED <<now, issued, started, result, text, textDone, utilVars>>

\* The await of line 92 resumes with the token, in a microtask after the
\* one that read or wrote the cache, and lines 94-103 send the recognition
\* request with it.
SendRecog(c) ==
  /\ pc[c] = "token"
  /\ Collected
  /\ pc' = [pc EXCEPT ![c] = "recog"]
  /\ sentAt' = [sentAt EXCEPT ![c] = now]
  /\ log' = [log EXCEPT ![c] = Append(log[c], Ev("recogReq", token[c], 0))]
  /\ UNCHANGED <<cachedToken, tokenExpiry, now, issued, started, lastWriter,
                 isRetry, token, outcome, result, text, textDone, utilVars>>

\* lines 130-135, in the microtask that resumes the rejected await: both
\* cache fields are cleared and the attempt is run again as a retry, up to
\* its first await.
Retry(c) ==
  /\ pc[c] = "caught"
  /\ Collected
  /\ LET cleared == Invalidate(cachedToken, tokenExpiry)
     IN  BeginAttempt(c, TRUE, cleared.tok, cleared.exp, c,
                      log[c] \o <<Ev("invalidate", cachedToken, 0)>>)
  /\ UNCHANGED <<now, issued, started, result, text, textDone, utilVars>>

\* The recognition request of call c ends (line 96 returns or throws).
RecogResponse(c, st, body) ==
  /\ pc[c] = "recog"
  /\ Collected
  /\ Arrives(c, st, SPEECH_TIMEOUT)
  /\ LET lg == log[c] \o <<Ev("recogResp", token[c], st)>>
     IN  IF st = 200
         THEN Settle(c, TextOutcome(ExtractText(body)), cachedToken, tokenExpiry,
                     lastWriter, lg)
         ELSE HandleError(c, AxiosError(st), cachedToken, tokenExpiry, lastWriter, lg)
  /\ UNCHANGED <<now, issued, started, result, text, textDone, utilVars>>

\* Time passes, when no await is about to resume: the microtasks of a turn
\* run within the same millisecond.
Tick ==
  /\ now < MaxTicks * TickMs
  /\ Collected
  /\ \A c \in Calls : pc[c] \notin {"token", "caught", "authFailed"}
  /\ now' = now + TickMs
  /\ UNCHANGED <<cachedToken, tokenExpiry, issued, started, lastWriter, pc,
                 isRetry, token, sentAt, log, outcome, result, text, textDone, utilVars>>

Init ==
  /\ InitProto
  /\ InitUtil
  /\ result = AbsentResult
  /\ text = << >>
  /\ textDone = FALSE

\* A response is taken by a call that waits for it: the call's place is
\* tested before the answers of the server are enumerated.
Next ==
  \/ \E c \in Calls : Start(c)
  \/ \E c \in Calls :
       /\ pc[c] = "oauth"
       /\ \E st \in Statuses, hasToken \in BOOLEAN, e \in Expirations :
            OAuthResponse(c, st, hasToken, e)
  \/ \E c \in Calls : CatchAuthError(c)
  \/ \E c \in Calls : SendRecog(c)
  \/ \E c \in Calls : Retry(c)
  \/ \E c \in Calls :
       /\ pc[c] = "recog"
       /\ \E st \in Statuses : \E body \in BodiesOf(st) : RecogResponse(c, st, body)
  \/ Forget
  \/ Tick

Spec == Init /\ [][Next]_vars

\* Every request ends: the server answers, or the connection fails, or the
\* timeout of line 56 or 101 runs out; the continuation of every await runs;
\* and the caller takes the result of a settled call.
NetworkFair ==
  /\ WF_vars(Forget)
  /\ \A c \in Calls :
       /\ WF_vars(\E st \in Statuses, hasToken \in BOOLEAN, e \in Expirations :
                    OAuthResponse(c, st, hasToken, e))
       /\ WF_vars(CatchAuthError(c))
       /\ WF_vars(SendRecog(c))
       /\ WF_vars(Retry(c))
       /\ WF_vars(\E st \in Statuses : \E body \in BodiesOf(st) : RecogResponse(c, st, body))

\* Termination is checked for as many calls as can be in flight at once.
LiveCalls == Cardinality(Calls)

StartLive(c) == started < LiveCalls /\ Start(c)

NextLive ==
  \/ \E c \in Calls : StartLive(c)
  \/ \E c \in Calls :
       /\ pc[c] = "oauth"
       /\ \E st \in Statuses, hasToken \in BOOLEAN, e \in Expirations :
            OAuthResponse(c, st, hasToken, e)
  \/ \E c \in Calls : CatchAuthError(c)
  \/ \E c \in Calls : SendRecog(c)
  \/ \E c \in Calls : Retry(c)
  \/ \E c \in Calls :
       /\ pc[c] = "recog"
       /\ \E st \in Statuses : \E body \in BodiesOf(st) : RecogResponse(c, st, body)
  \/ Forget
  \/ Tick

SpecLive == Init /\ [][NextLive]_vars /\ NetworkFair

\* ------------------------------------------- the text extraction on its own

\* Every recognition result with strings of at most MaxLen characters and
\* arrays of at most MaxArr segments.
Strings == SeqsUpTo(Chars, MaxLen)
AllResults ==
  {StrResult(s) : s \in Strings} \cup {ArrResult(a) : a \in SeqsUpTo(Strings, MaxArr)}
    \cup {AbsentResult, OtherResult}

InitText ==
  /\ InitProto
  /\ InitUtil
  /\ result \in AllResults
  /\ text = << >>
  /\ textDone = FALSE

\* lines 105-125 run on a 2xx response whose data.result is result
Extract ==
  /\ ~textDone
  /\ text' = ExtractText(result)
  /\ textDone' = TRUE
  /\ UNCHANGED <<cachedToken, tokenExpiry, now, issued, started, lastWriter, pc,
                 isRetry, token, sentAt, log, outcome, result, utilVars>>

NextText == Extract

SpecText == InitText /\ [][NextText]_vars

\* ------------------------------------------------- the audio converter

\* The chunks the output stream may deliver (byte sequences), and the
\* messages of the errors the transcoder or the stream may emit.
Chunks == {<<1>>, <<2, 3>>}
ErrMsgs == {"e"}

\* Buffer.concat
RECURSIVE Concat(_)
Concat(cs) == IF cs = << >> THEN << >> ELSE cs[1] \o Concat(Tail(cs))

\* a promise that every resolve or reject settles again
SettleLast(p, new) == new

\* resolve and reject of line 164: only the first call settles the promise
SettleOnce(p, new) == IF p.state = "pending" THEN new ELSE p

protoVars == <<cachedToken, tokenExpiry, now, issued, started, lastWriter, pc,
               isRetry, token, sentAt, log, outcome>>
textVars == <<result, text, textDone>>

\* lines 164-166: the promise is created with an empty chunks array
NewConversion ==
  /\ promise' = Pending
  /\ chunks' = << >>
  /\ evs' = << >>

\* An event is emitted while the handlers of lines 172-182 are registered.
Emits == promise.state # "none" /\ Len(evs) < MaxEvents

\* line 179: the stream's 'data' handler
OnData(chunk) ==
  /\ Emits
  /\ chunks' = Append(chunks, chunk)
  /\ evs' = Append(evs, "data")
  /\ UNCHANGED promise

\* lines 172-174: the transcoder's 'error' handler
OnError(m) ==
  /\ Emits
  /\ promise' = SettleOnce(promise, Rejected(<<"Audio conversion failed", m>>))
  /\ evs' = Append(evs, "error")
  /\ UNCHANGED chunks

\* lines 180-182: the stream's 'error' handler
OnStreamError(m) ==
  /\ Emits
  /\ promise' = SettleOnce(promise, Rejected(<<"Stream error", m>>))
  /\ evs' = Append(evs, "streamError")
  /\ UNCHANGED chunks

\* lines 175-177: the transcoder's 'end' handler
OnEnd ==
  /\ Emits
  /\ promise' = SettleOnce(promise, Resolved(Concat(chunks)))
  /\ evs' = Append(evs, "end")
  /\ UNCHANGED chunks

\* convertOggToMp3(oggBuffer) is called
ConvertOggToMp3 ==
  /\ promise.state = "none"
  /\ NewConversion
  /\ UNCHANGED <<protoVars, textVars, voiceVars, botVars>>

ConvData == (\E ch \in Chunks : OnData(ch)) /\ UNCHANGED <<protoVars, textVars, voiceVars, botVars>>
ConvError == (\E m \in ErrMsgs : OnError(m)) /\ UNCHANGED <<protoVars, textVars, voiceVars, botVars>>
ConvStreamError ==
  (\E m \in ErrMsgs : OnStreamError(m)) /\ UNCHANGED <<protoVars, textVars, voiceVars, botVars>>
ConvEnd == OnEnd /\ UNCHANGED <<protoVars, textVars, voiceVars, botVars>>

NextConv ==
  \/ ConvertOggToMp3
  \/ ConvData
  \/ ConvError
  \/ ConvStreamError
  \/ ConvEnd

SpecConv == Init /\ [][NextConv]_vars

\* -------------------------------------------------------- transcribeVoice

\* a transcribeVoice that lets the failure through
Propagate(cause) == VoiceThrow

\* utils.ts lines 174-177: the catch block logs the failure and returns null
OnFailure(cause) == VoiceNull

\* the records of the settled transcribe calls are dropped
Dropped(f, empty) == [c \in Calls |-> IF pc[c] = "done" THEN empty ELSE f[c]]

\* transcribeVoice(filePath) is called, utils.ts lines 153-164: without the
\* two objects it returns null, otherwise it starts reading the file.
TranscribeVoice ==
  /\ vpc \in {"idle", "done"}
  /\ started < MaxCalls
  /\ IF ~sberTranscription \/ ~audioConverter
     THEN /\ vpc' = "done"
          /\ vret' = VoiceNull
          /\ vlog' = << >>
     ELSE /\ vpc' = "read"
          /\ vret' = VoiceNone
          /\ vlog' = <<"read">>
  /\ pc' = Dropped(pc, "idle")
  /\ isRetry' = Dropped(isRetry, FALSE)
  /\ token' = Dropped(token, NoToken)
  /\ log' = Dropped(log, << >>)
  /\ outcome' = Dropped(outcome, NoOutcome)
  /\ UNCHANGED <<cachedToken, tokenExpiry, now, issued, started, lastWriter, sentAt,
                 textVars, convVars, secret, available, sberTranscription,
                 audioConverter, botVars>>

\* utils.ts lines 164-168: the read of the file ends; on success the
\* conversion is started, on failure the catch block runs.
ReadFile(ok) ==
  /\ vpc = "read"
  /\ IF ok
     THEN /\ NewConversion
          /\ vpc' = "convert"
          /\ vlog' = vlog \o <<"readOk", "convert">>
          /\ vret' = vret
     ELSE /\ vpc' = "done"
          /\ vlog' = Append(vlog, "readFailed")
          /\ vret' = OnFailure("read")
          /\ UNCHANGED convVars
  /\ UNCHANGED <<protoVars, textVars, secret, available, sberTranscription,
                 audioConverter, botVars>>

\* an event of the conversion transcribeVoice is waiting for
VoiceConvEvent ==
  /\ vpc = "convert"
  /\ \/ \E ch \in Chunks : OnData(ch)
     \/ \E m \in ErrMsgs : OnError(m) \/ OnStreamError(m)
     \/ OnEnd
  /\ UNCHANGED <<protoVars, textVars, voiceVars, botVars>>

\* utils.ts lines 168-172: the await of the conversion ends; with a buffer
\* transcribe is called (lines 83-85 of the service), with a rejection the
\* catch block runs.  The conversion's closure is dropped.
ConvSettled(c) ==
  /\ vpc = "convert"
  /\ promise.state \in {"resolved", "rejected"}
  /\ Free(c)
  /\ promise' = NoPromise
  /\ chunks' = << >>
  /\ evs' = << >>
  /\ IF promise.state = "resolved"
     THEN /\ vpc' = "transcribe"
          /\ vlog' = vlog \o <<"converted", "transcribe">>
          /\ vret' = vret
          /\ started' = started + 1
          /\ BeginAttempt(c, FALSE, cachedToken, tokenExpiry, lastWriter, << >>)
     ELSE /\ vpc' = "done"
          /\ vlog' = Append(vlog, "convertFailed")
          /\ vret' = OnFailure("convert")
          /\ UNCHANGED <<cachedToken, tokenExpiry, lastWriter, isRetry, sentAt,
                         outcome, pc, token, log, started>>
  /\ UNCHANGED <<now, issued, textVars, secret, available, sberTranscription,
                 audioConverter, botVars>>

\* utils.ts lines 172-177: the await of transcribe ends; its text is
\* returned, its error makes the catch block run.
VoiceReturn(c) ==
  /\ vpc = "transcribe"
  /\ pc[c] = "done"
  /\ vpc' = "done"
  /\ IF outcome[c].kind = "text"
     THEN /\ vret' = VoiceText(outcome[c].text)
          /\ vlog' = Append(vlog, "transcribed")
     ELSE /\ vret' = OnFailure("transcribe")
          /\ vlog' = Append(vlog, "transcribeFailed")
  /\ UNCHANGED <<protoVars, textVars, convVars, secret, available,
                 sberTranscription, audioConverter, botVars>>

\* the module is loaded with any configuration
InitAnyConfig ==
  /\ InitProto
  /\ result = AbsentResult
  /\ text = << >>
  /\ textDone = FALSE
  /\ InitConv
  /\ \E sec \in BOOLEAN, avail \in BOOLEAN : InitVoice(sec, avail)
  /\ InitIntr(FALSE)
  /\ InitTyping

NextVoice ==
  \/ TranscribeVoice
  \/ \E ok \in BOOLEAN : ReadFile(ok)
  \/ VoiceConvEvent
  \/ \E c \in Calls : ConvSettled(c)
  \/ \E c \in Calls :
       /\ pc[c] = "oauth"
       /\ \E st \in Statuses, hasToken \in BOOLEAN, e \in Expirations :
            OAuthResponse(c, st, hasToken, e)
  \/ \E c \in Calls : CatchAuthError(c)
  \/ \E c \in Calls : SendRecog(c)
  \/ \E c \in Calls : Retry(c)
  \/ \E c \in Calls :
       /\ pc[c] = "recog"
       /\ \E st \in Statuses : \E body \in BodiesOf(st) : RecogResponse(c, st, body)
  \/ \E c \in Calls : VoiceReturn(c)
  \/ Tick

SpecVoice == InitAnyConfig /\ [][NextVoice]_vars

\* --------------------------------------------------------- checkInterrupt

\* The texts checkInterrupt is called with.
IntrChars == {"!", "a", " "}
IntrTexts == SeqsUpTo(IntrChars, MaxText)

\* String.prototype.startsWith("!"), after the !text test of line 223
IsInterrupt(t) == t # << >> /\ t[1] = "!"

\* a strip that only drops the prefix
SliceOnly(t) == Tail(t)

\* utils.ts line 232: text.slice(1).trimStart()
StrippedText(t) == TrimStart(Tail(t))

\* a handler that stops the session before it marks the interrupt
StopBeforeMark == <<"stop", "markInterrupt">>

\* utils.ts lines 236-237: the session operations called before the await
InterruptCalls == <<"markInterrupt", "stop">>

\* utils.ts lines 232-243, from the read of the session module on: the
\* session is interrupted when it is running, otherwise the stripped text is
\* returned.
AfterImport ==
  IF isRunning
  THEN /\ sawRunning' = "yes"
       /\ calls' = InterruptCalls
       /\ ipc' = "stopping"
       /\ iret' = IntrNone
  ELSE /\ sawRunning' = "no"
       /\ calls' = << >>
       /\ ipc' = "done"
       /\ iret' = IntrText(StrippedText(itext'))

nonIntrVars == <<protoVars, textVars, convVars, voiceVars, typingVars>>

\* checkInterrupt(t) is called, utils.ts lines 222-230
CheckInterrupt(t) ==
  /\ ipc \in {"idle", "done"}
  /\ itext' = t
  /\ IF ~IsInterrupt(t)
     THEN /\ ipc' = "done"
          /\ iret' = IntrText(t)
          /\ sawRunning' = "unread"
          /\ calls' = << >>
     ELSE IF ~sessionModule
     THEN /\ ipc' = "import"
          /\ iret' = IntrNone
          /\ sawRunning' = "unread"
          /\ calls' = << >>
     ELSE AfterImport
  /\ UNCHANGED <<sessionModule, isRunning, nonIntrVars>>

\* utils.ts line 229: the import of the session module ends
ImportDone ==
  /\ ipc = "import"
  /\ sessionModule' = TRUE
  /\ itext' = itext
  /\ AfterImport
  /\ UNCHANGED <<isRunning, nonIntrVars>>

\* utils.ts lines 237-238: the promise of session.stop() settles; when it
\* resolves (with any value) the sleep of 100 ms starts, when it rejects
\* checkInterrupt rejects.
StopDone(ok) ==
  /\ ipc = "stopping"
  /\ IF ok
     THEN /\ ipc' = "sleeping"
          /\ calls' = Append(calls, "stopDone")
          /\ iret' = iret
     ELSE /\ ipc' = "done"
          /\ calls' = Append(calls, "stopFailed")
          /\ iret' = IntrThrow
  /\ UNCHANGED <<itext, sessionModule, isRunning, sawRunning, nonIntrVars>>

\* utils.ts lines 238-243: the sleep ends
SleepDone ==
  /\ ipc = "sleeping"
  /\ calls' = Append(calls, "clearStopRequested")
  /\ ipc' = "done"
  /\ iret' = IntrText(StrippedText(itext))
  /\ UNCHANGED <<itext, sessionModule, isRunning, sawRunning, nonIntrVars>>

\* The session starts or ends a query of its own accord.
SessionChanges ==
  /\ isRunning' = ~isRunning
  /\ UNCHANGED <<itext, ipc, sessionModule, sawRunning, calls, iret, nonIntrVars>>

InitAnySession ==
  /\ InitProto
  /\ result = AbsentResult
  /\ text = << >>
  /\ textDone = FALSE
  /\ InitConv
  /\ InitVoice(TRUE, TRUE)
  /\ \E r \in BOOLEAN : InitIntr(r)
  /\ InitTyping

NextIntr ==
  \/ \E t \in IntrTexts : CheckInterrupt(t)
  \/ ImportDone
  \/ \E ok \in BOOLEAN : StopDone(ok)
  \/ SleepDone
  \/ SessionChanges

SpecIntr == InitAnySession /\ [][NextIntr]_vars

\* ------------------------------------------------------ typing indicator

\* a loop that never tests the flag
LoopForever(r) == TRUE

\* utils.ts line 190: while (running)
LoopContinues(r) == r

\* utils.ts lines 191-196: the typing action has resolved (ok) or thrown;
\* the catch block swallows the error, and the sleep of 4 s starts
AfterAction(ok) == "sleeping"

nonTypingVars == <<protoVars, textVars, convVars, voiceVars, intrVars>>

\* startTypingIndicator(ctx), utils.ts lines 186-208: running is set, the
\* loop is entered and sends the first typing action before the controller
\* is returned.  Indicators are interchangeable: they are taken in order.
StartTypingIndicator(i) ==
  /\ tpc[i] = "none"
  /\ \A j \in Indicators : j < i => tpc[j] # "none"
  /\ running' = [running EXCEPT ![i] = TRUE]
  /\ tpc' = [tpc EXCEPT ![i] = IF LoopContinues(TRUE) THEN "acting" ELSE "exited"]
  /\ UNCHANGED <<stopped, lastFailed, nonTypingVars>>

\* utils.ts lines 192-196: ctx.replyWithChatAction resolves or rejects
TypingEnds(i, ok) ==
  /\ tpc[i] = "acting"
  /\ lastFailed' = [lastFailed EXCEPT ![i] = ~ok]
  /\ tpc' = [tpc EXCEPT ![i] = AfterAction(ok)]
  /\ UNCHANGED <<running, stopped, nonTypingVars>>

\* utils.ts lines 196, 190-192: the sleep ends and the loop tests running
SleepEnds(i) ==
  /\ tpc[i] = "sleeping"
  /\ tpc' = [tpc EXCEPT ![i] = IF LoopContinues(running[i]) THEN "acting" ELSE "exited"]
  /\ UNCHANGED <<running, stopped, lastFailed, nonTypingVars>>

\* utils.ts lines 204-206: stop() of the controller of indicator i
Stop(i) ==
  /\ tpc[i] # "none"
  /\ running' = [running EXCEPT ![i] = FALSE]
  /\ stopped' = [stopped EXCEPT ![i] = TRUE]
  /\ UNCHANGED <<tpc, lastFailed, nonTypingVars>>

NextTyping ==
  \/ \E i \in Indicators : StartTypingIndicator(i)
  \/ \E i \in Indicators, ok \in BOOLEAN : TypingEnds(i, ok)
  \/ \E i \in Indicators : SleepEnds(i)
  \/ \E i \in Indicators : Stop(i)

\* Every typing action resolves or rejects, and every sleep ends.
TypingFair ==
  \A i \in Indicators :
    /\ WF_vars(\E ok \in BOOLEAN : TypingEnds(i, ok))
    /\ WF_vars(SleepEnds(i))

SpecTyping == Init /\ [][NextTyping]_vars /\ TypingFair

\* ------------------------------------------------------------ properties

Last(s) == s[Len(s)]

\* how many times call log lg has the entry e
Count(lg, e) == Cardinality({i \in DOMAIN lg : lg[i].ev = e})

IsRecogResp(x) == x.ev = "recogResp"

\* the statuses of the recognition responses of log lg, in order
Answers(lg) ==
  LET r == SelectSeq(lg, IsRecogResp)
  IN  [i \in 1..Len(r) |-> r[i].st]

\* In log lg the first recognition request was answered 401, then an OAuth
\* request was sent and answered with token T, then the second recognition
\* request was sent with T.
RetriedWithFresh(lg, T) ==
  \E r1 \in DOMAIN lg :
    /\ lg[r1].ev = "recogResp" /\ lg[r1].st = 401
    /\ \E q \in DOMAIN lg :
         /\ r1 < q /\ lg[q].ev = "oauthReq"
         /\ \E o \in DOMAIN lg :
              /\ q < o /\ lg[o].ev = "oauthOk" /\ lg[o].tok = T /\ T # NoToken
              /\ \E r2 \in DOMAIN lg :
                   o < r2 /\ lg[r2].ev = "recogReq" /\ lg[r2].tok = T

\* C1 as stated: whenever a call whose first recognition request was answered
\* 401 gets 200 for its second, it returns the text of that response, has sent
\* exactly two recognition requests with a fresh OAuth request between them,
\* and the cache then holds the token of that OAuth request.
C1_AsStated ==
  [][\A c \in Calls, body \in SpecBodies :
       (pc[c] = "recog" /\ RecogResponse(c, 200, body)
          /\ Answers(log'[c]) = <<401, 200>>) =>
         /\ pc'[c] = "done"
         /\ outcome'[c] = TextOutcome(ExtractText(body))
         /\ Count(log'[c], "recogReq") = 2
         /\ \E T \in 1..issued : RetriedWithFresh(log'[c], T) /\ cachedToken' = T]_vars

\* C1 amended: the same, but the cache is only known to hold the token of
\* the fresh OAuth request when no other call has written the cache since
\* this call did.
C1_RetrySucceeds ==
  [][\A c \in Calls, body \in SpecBodies :
       (pc[c] = "recog" /\ RecogResponse(c, 200, body)
          /\ Answers(log'[c]) = <<401, 200>>) =>
         /\ pc'[c] = "done"
         /\ outcome'[c] = TextOutcome(ExtractText(body))
         /\ Count(log'[c], "recogReq") = 2
         /\ \E T \in 1..issued :
              /\ RetriedWithFresh(log'[c], T)
              /\ lastWriter' = c => cachedToken' = T]_vars

\* a call got 401 then 200, returned the text "a", and the cache holds the
\* token it fetched for the retry
C1_Witness ==
  \E c \in Calls :
    /\ pc[c] = "done"
    /\ Answers(log[c]) = <<401, 200>>
    /\ outcome[c] = TextOutcome(<<"a">>)
    /\ lastWriter = c
    /\ cachedToken = token[c]
    /\ RetriedWithFresh(log[c], token[c])

\* C2: a call whose first two recognition requests were both answered 401
\* has failed with a transcription error, and has sent two recognition
\* requests and at most two OAuth requests (a settled call sends nothing more).
C2_NoThirdAttempt ==
  \A c \in Calls :
    LET a == Answers(log[c])
    IN  (Len(a) >= 2 /\ a[1] = 401 /\ a[2] = 401) =>
          /\ pc[c] = "done"
          /\ outcome[c].kind = "error"
          /\ outcome[c].msg = <<"Sber transcription failed", AxiosMessage(401)>>
          /\ Count(log[c], "recogReq") = 2
          /\ Count(log[c], "oauthReq") <= 2

\* a call was answered 401 twice, after two OAuth requests
C2_Witness ==
  \E c \in Calls :
    /\ pc[c] = "done"
    /\ Answers(log[c]) = <<401, 401>>
    /\ Count(log[c], "oauthReq") = 2
    /\ outcome[c].kind = "error"

\* the claims' own reading of the numbers
FiveMinutes == 5 * 60 * 1000
ThirtySeconds == 30 * 1000

\* a token is cached and now < expiresAt - 5 minutes
Warm == cachedToken # NoToken /\ tokenExpiry # Null /\ now < tokenExpiry - FiveMinutes

\* the call of log lg got its first token from the cache
StartedWarm(lg) == lg # << >> /\ lg[1].ev = "cache"

\* the call of log lg sent no OAuth request, wrote nothing to the cache and
\* used the token it was first handed in every request
NoRefresh(lg) ==
  /\ Count(lg, "oauthReq") = 0
  /\ Count(lg, "invalidate") = 0
  /\ \A i \in DOMAIN lg : lg[i].ev = "recogReq" => lg[i].tok = lg[1].tok

Got401(lg) == \E i \in DOMAIN lg : lg[i].ev = "recogResp" /\ lg[i].st = 401

\* the getToken call that opens a transcribe call made on a warm cache
\* returns the cached token, sends no OAuth request and leaves the cache alone
WarmGetToken(c) ==
  (Start(c) /\ Warm) =>
    /\ token'[c] = cachedToken
    /\ log'[c] = <<Ev("cache", cachedToken, 0)>>
    /\ UNCHANGED <<cachedToken, tokenExpiry>>

\* C3 as stated: a getToken call on a warm cache returns the cached token
\* with no OAuth request and no change of the cache, and so does every
\* transcribe call made on a warm cache, to its end.
C3_AsStated ==
  [][\A c \in Calls :
       /\ WarmGetToken(c)
       /\ StartedWarm(log'[c]) => NoRefresh(log'[c])]_vars

\* C3 amended: the transcribe call does so unless a recognition request of
\* it is answered 401.
C3_WarmCache ==
  [][\A c \in Calls :
       /\ WarmGetToken(c)
       /\ (StartedWarm(log'[c]) /\ ~Got401(log'[c])) => NoRefresh(log'[c])]_vars

\* a call made on a warm cache has returned a text after one recognition
\* request with the cached token, which is still cached
C3_Witness ==
  \E c \in Calls :
    /\ pc[c] = "done"
    /\ StartedWarm(log[c])
    /\ outcome[c].kind = "text"
    /\ Count(log[c], "recogReq") = 1
    /\ cachedToken = token[c]
    /\ Warm

\* the lifetime C4 gives a response: 1800 when expires_at is omitted
ClaimedLifetime(expires_at) == IF expires_at = Absent THEN 1800 ELSE expires_at

\* C4 as stated: a getToken call on a cold cache sends exactly one OAuth
\* request, and when the response carries a token the cache holds that token
\* with expiry = now + lifetime seconds, the lifetime being 1800 when omitted.
C4_AsStated ==
  [][\A c \in Calls :
       /\ (Start(c) /\ ~Warm) => log'[c] = <<Ev("oauthReq", NoToken, 0)>>
       /\ \A e \in Lifetimes :
            OAuthResponse(c, 200, TRUE, e) =>
              /\ cachedToken' = issued + 1
              /\ Count(log'[c], "oauthReq") = Count(log[c], "oauthReq")
              /\ tokenExpiry' = now + ClaimedLifetime(e) * 1000]_vars

\* call c is handed a token in this step: getAuthToken returns one, from
\* the cache or from an OAuth response
HandsOut(c) == pc[c] # "token" /\ pc'[c] = "token"

\* C5 as stated: whenever a token is handed out for a recognition request,
\* its expiry is later than now plus the 30-second recognition timeout.
C5_AsStated ==
  [][\A c \in Calls :
       HandsOut(c) =>
         /\ cachedToken' = token'[c]
         /\ tokenExpiry' > now + ThirtySeconds]_vars

\* C6 as stated: once a call has settled, no token that the recognition
\* server answered 401 to in that call is the cached token.
C6_AsStated ==
  \A c \in Calls :
    pc[c] = "done" =>
      \A i \in DOMAIN log[c] :
        (log[c][i].ev = "recogResp" /\ log[c][i].st = 401) => cachedToken # log[c][i].tok

\* C7: when a recognition request fails with a status other than 401 or
\* with no response, the call settles with a transcription error carrying
\* the cause, sends nothing more, and leaves the cache as it is.
C7_NoRetryOnOtherFailure ==
  [][\A c \in Calls :
       (pc[c] = "recog" /\ pc'[c] # "recog") =>
         \A st \in Statuses \ {200, 401} :
           RecogResponse(c, st, AbsentResult) =>
             /\ pc'[c] = "done"
             /\ outcome'[c].kind = "error"
             /\ outcome'[c].msg = <<"Sber transcription failed", AxiosMessage(st)>>
             /\ log'[c] = Append(log[c], Ev("recogResp", token[c], st))
             /\ UNCHANGED <<cachedToken, tokenExpiry>>]_vars

\* a first attempt failed with status 500 and the token it used is still cached
C7_Witness ==
  \E c \in Calls :
    /\ pc[c] = "done"
    /\ Answers(log[c]) = <<500>>
    /\ outcome[c].msg = <<"Sber transcription failed", AxiosMessage(500)>>
    /\ cachedToken = token[c]
    /\ cachedToken # NoToken

\* what the failure of call c's OAuth request (status st, or 200 without
\* access_token) must lead to in the step that takes the answer:
\* getAuthToken rejects, nothing is sent and nothing is settled yet
AuthFailureRejects(c, st) ==
  /\ pc'[c] = "authFailed"
  /\ Len(log'[c]) = Len(log[c]) + 1
  /\ Last(log'[c]).ev \in {"oauthFail", "oauthOk"}
  /\ Last(log'[c]).st = st
  /\ isRetry'[c] = isRetry[c]
  /\ outcome'[c] = outcome[c]
  /\ st # 200 => UNCHANGED <<cachedToken, tokenExpiry>>

\* what the catch block must do with the rejection of getAuthToken: the call
\* settles with an error naming the authentication failure, with its log
\* and the cache as they were
AuthFailureSettles(c) ==
  /\ pc'[c] = "done"
  /\ outcome'[c].kind = "error"
  /\ Len(outcome'[c].msg) = 3
  /\ SubSeq(outcome'[c].msg, 1, 2) =
       <<"Sber transcription failed", "Sber authentication failed">>
  /\ Last(log[c]).st # 200 => outcome'[c].msg[3] = AxiosMessage(Last(log[c]).st)
  /\ log'[c] = log[c]
  /\ isRetry'[c] = isRetry[c]
  /\ UNCHANGED <<cachedToken, tokenExpiry>>

\* C8: when the OAuth request of an attempt fails (no response, a status
\* other than 2xx, or a body without access_token), getAuthToken rejects and
\* the catch block, in a later step, settles the call with an error naming
\* the authentication failure; the call sends no other OAuth request and no
\* recognition request, and does not invalidate and retry.
C8_NoRetryOnAuthFailure ==
  [][\A c \in Calls :
       /\ (pc[c] = "oauth" /\ pc'[c] # "oauth") =>
            /\ \A st \in Statuses \ {200} :
                 OAuthResponse(c, st, FALSE, Absent) => AuthFailureRejects(c, st)
            /\ \A e \in Expirations :
                 OAuthResponse(c, 200, FALSE, e) => AuthFailureRejects(c, 200)
       /\ CatchAuthError(c) => AuthFailureSettles(c)]_vars

\* the OAuth request of a first attempt was answered 401 and the call failed
\* after that one request, with the cache as it was
C8_Witness ==
  \E c \in Calls :
    /\ pc[c] = "done"
    /\ log[c] = <<Ev("oauthReq", NoToken, 0), Ev("oauthFail", NoToken, 401)>>
    /\ ~isRetry[c]
    /\ outcome[c].kind = "error"

\* every character of s is whitespace (also when s is empty)
AllSpaces(s) == \A i \in DOMAIN s : IsSpace(s[i])

\* where segment i of a starts in the joined text, counted from 0
RECURSIVE Offset(_, _)
Offset(a, i) == IF i = 1 THEN 0 ELSE Offset(a, i - 1) + Len(a[i - 1]) + 1

\* t is the segments of a, in order, with exactly one space between
\* consecutive segments
JoinedBySpaces(t, a) ==
  /\ Len(t) = Offset(a, Len(a)) + Len(a[Len(a)])
  /\ \A i \in DOMAIN a :
       /\ SubSeq(t, Offset(a, i) + 1, Offset(a, i) + Len(a[i])) = a[i]
       /\ i < Len(a) => t[Offset(a, i) + Len(a[i]) + 1] = " "

\* the result has no speech in it: an empty or whitespace-only string, an
\* empty array, an array whose segments are all whitespace, no result, or a
\* result that is neither a string nor an array
NoSpeechResult(r) ==
  \/ r.kind = "string" /\ AllSpaces(r.s)
  \/ r.kind = "array" /\ \A i \in DOMAIN r.a : AllSpaces(r.a[i])
  \/ r.kind \in {"absent", "other"}

\* C9: for a 2xx response whose result is an empty string, an empty array,
\* absent, or only whitespace, the text returned is the empty string.
C9_NoSpeechIsEmpty ==
  (textDone /\ NoSpeechResult(result)) => text = << >>

\* a whitespace-only text was extracted from an array of two blank
\* segments, and came out empty
C9_Witness ==
  /\ textDone
  /\ result = ArrResult(<< <<" ">>, << >> >>)
  /\ text = << >>

\* C10 as stated: a non-empty array yields its segments joined by single
\* spaces, or the empty string when that is whitespace-only; a string
\* result is returned as it is.
C10_AsStated ==
  textDone =>
    /\ (result.kind = "array" /\ Len(result.a) > 0) =>
         \/ JoinedBySpaces(text, result.a) /\ ~AllSpaces(text)
         \/ text = << >> /\ \A i \in DOMAIN result.a : AllSpaces(result.a[i])
    /\ result.kind = "string" => text = result.s

\* C10 amended: a string result is returned as it is unless it is
\* whitespace-only, and then the empty string is returned.
C10_ArrayJoin ==
  textDone =>
    /\ (result.kind = "array" /\ Len(result.a) > 0) =>
         \/ JoinedBySpaces(text, result.a) /\ ~AllSpaces(text)
         \/ text = << >> /\ \A i \in DOMAIN result.a : AllSpaces(result.a[i])
    /\ result.kind = "string" =>
         text = IF AllSpaces(result.s) THEN << >> ELSE result.s

\* two segments came out in order with one space between them
C10_Witness ==
  /\ textDone
  /\ result = ArrResult(<< <<"a">>, <<"b", "a">> >>)
  /\ text = <<"a", " ", "b", "a">>

\* the events that reject: an error of the transcoder or of its stream
IsErrorEvent(e) == e \in {"error", "streamError"}

\* an error event was emitted with no end event before it
ErrorBeforeEnd ==
  \E i \in DOMAIN evs :
    IsErrorEvent(evs[i]) /\ \A j \in 1..(i - 1) : evs[j] # "end"

\* C11: once the transcoder or its stream has emitted an error with no end
\* event before it, the promise of convertOggToMp3 is rejected with an error
\* and holds no buffer, however many chunks arrived and whatever is emitted
\* afterwards (an end event included).
C11_ErrorRejects ==
  ErrorBeforeEnd =>
    /\ promise.state = "rejected"
    /\ promise.buf = << >>
    /\ promise.msg \in {<<"Audio conversion failed", m>> : m \in ErrMsgs}
                       \cup {<<"Stream error", m>> : m \in ErrMsgs}

\* two chunks arrived, then the transcoder failed, then it signalled the end:
\* the promise is rejected
C11_Witness ==
  /\ evs = <<"data", "data", "error", "end">>
  /\ Len(chunks) = 2
  /\ promise.state = "rejected"

\* C12: when the secret or the availability flag is absent, neither the
\* service nor the converter is constructed, and a transcribeVoice call
\* returns null at once: the file is not read, no conversion is started, no
\* transcribe call is made and no OAuth or recognition request is sent.
C12_DisabledIsInert ==
  (~secret \/ ~available) =>
    /\ ~sberTranscription
    /\ ~audioConverter
    /\ vpc \in {"idle", "done"}
    /\ vpc = "done" => vret = VoiceNull
    /\ vlog = << >>
    /\ promise = NoPromise
    /\ started = 0
    /\ issued = 0
    /\ \A c \in Calls : pc[c] = "idle" /\ log[c] = << >>

\* the secret is set but the flag is not, and transcribeVoice returned null
C12_Witness ==
  /\ secret
  /\ ~available
  /\ vpc = "done"
  /\ vret = VoiceNull

\* the transcribe call c starts in this step: it reads the cache and sends
\* an OAuth request or is handed the cached token
FirstRequest(c) == log[c] = << >> /\ log'[c] # << >>

\* C15: a transcribe call starts, and so sends its first request, only when
\* transcribeVoice resumes from a resolved conversion; when the conversion
\* has rejected, transcribeVoice returns null and no request is sent; and a
\* failed read, and a failed transcribe call, make it return null too.
C15_Pipeline ==
  [][/\ \A c \in Calls :
          FirstRequest(c) =>
            vpc = "convert" /\ promise.state = "resolved" /\ vpc' = "transcribe"
     /\ (vpc = "convert" /\ promise.state = "rejected") =>
          /\ UNCHANGED <<log, started, issued>>
          /\ vpc' # "convert" => (vpc' = "done" /\ vret' = VoiceNull)
     /\ ReadFile(FALSE) => (vpc' = "done" /\ vret' = VoiceNull)
     /\ \A c \in Calls :
          (VoiceReturn(c) /\ outcome[c].kind = "error") =>
            (vpc' = "done" /\ vret' = VoiceNull)
     /\ vret'.kind # "throw"]_vars

\* the file was read and converted, the transcribe call then failed after
\* sending a request, and transcribeVoice returned null
C15_Witness ==
  /\ vpc = "done"
  /\ vlog = <<"read", "readOk", "convert", "converted", "transcribe", "transcribeFailed">>
  /\ vret = VoiceNull
  /\ \E c \in Calls : outcome[c].kind = "error" /\ Count(log[c], "recogReq") = 1

\* the expiry lines 63-64 compute at time t for a response with expires_at e
ResponseExpiry(t, e) == t + (IF e = Absent \/ e = 0 THEN 1800 ELSE e) * 1000

\* C13: a transcribe call made on a cold cache sends its own OAuth request,
\* also while the OAuth request of another call is in flight; when an OAuth
\* response with a token is processed, the call it belongs to gets that
\* token, the cache holds the token and the expiry of that response (so of
\* the response processed last), and the other calls stay as they are; the
\* call then sends its recognition request with the token it got, whatever
\* the cache holds by then.
C13_RefreshRace ==
  [][\A c \in Calls :
       /\ (Start(c) /\ ~Warm) =>
            (pc'[c] = "oauth" /\ log'[c] = <<Ev("oauthReq", NoToken, 0)>>)
       /\ pc[c] = "oauth" =>
            \A e \in Lifetimes :
              OAuthResponse(c, 200, TRUE, e) =>
                /\ pc'[c] = "token"
                /\ token'[c] = issued + 1
                /\ Last(log'[c]) = Ev("oauthOk", issued + 1, 200)
                /\ cachedToken' = issued + 1
                /\ tokenExpiry' = ResponseExpiry(now, e)
                /\ \A d \in Calls \ {c} : pc'[d] = pc[d] /\ log'[d] = log[d]
       /\ (pc[c] = "token" /\ SendRecog(c)) =>
            /\ pc'[c] = "recog"
            /\ token[c] # NoToken
            /\ Last(log'[c]) = Ev("recogReq", token[c], 0)
            /\ UNCHANGED <<cachedToken, tokenExpiry>>]_vars

\* Two calls raced: call 2 was made while the OAuth request of call 1 was in
\* flight and got the first token; the response for call 1 came last, and
\* its token is the cached one.  Both have sent their recognition request.
C13_Witness ==
  /\ started = 2
  /\ log[2] = <<Ev("oauthReq", NoToken, 0), Ev("oauthOk", 1, 200), Ev("recogReq", 1, 0)>>
  /\ log[1] = <<Ev("oauthReq", NoToken, 0), Ev("oauthOk", 2, 200), Ev("recogReq", 2, 0)>>
  /\ pc[1] = "recog"
  /\ pc[2] = "recog"
  /\ cachedToken = 2
  /\ lastWriter = 1

\* In log lg every recognition request directly follows the token
\* acquisition of its attempt (a cache hit or an OAuth response with a
\* token) and carries that token; there are at most two OAuth requests and
\* two recognition requests.
StateMachine(lg) ==
  /\ \A i \in DOMAIN lg :
       lg[i].ev = "recogReq" =>
         /\ i > 1
         /\ lg[i - 1].ev \in {"cache", "oauthOk"}
         /\ lg[i - 1].tok = lg[i].tok
         /\ lg[i].tok # NoToken
  /\ Count(lg, "oauthReq") <= 2
  /\ Count(lg, "recogReq") <= 2

\* call c has returned a text (possibly empty) or thrown an error
Terminal(c) == pc[c] = "done" /\ outcome[c].kind \in {"text", "error"}

\* call c is waiting for the response to a request, holds a token and is
\* about to send its recognition request, has caught a 401 and is about to
\* retry, or waits for its catch block to take the rejection of getAuthToken
InFlight(c) == pc[c] \in {"oauth", "token", "recog", "caught", "authFailed"}

\* how many calls are in flight
NumInFlight == Cardinality({c \in Calls : InFlight(c)})

\* C14: in every step the log of every call follows the state machine, the
\* request in flight carries the call's token, and a call leaves its
\* requests only by returning a text or throwing an error; and, every request
\* ending, again and again no call is left in flight: every call that was
\* made settles.
C14_StateMachine ==
  /\ [][/\ \A c \in Calls :
            /\ StateMachine(log'[c])
            /\ pc'[c] = "recog" => Last(log'[c]) = Ev("recogReq", token'[c], 0)
            /\ (InFlight(c) /\ pc'[c] = "done") => Terminal(c)'
        /\ NumInFlight' < NumInFlight =>
             \E c \in Calls : InFlight(c) /\ Terminal(c)']_vars
  /\ []<>(\A c \in Calls : ~InFlight(c))

\* a call has returned a text after two OAuth requests and two recognition
\* requests
C14_Witness ==
  \E c \in Calls :
    /\ Terminal(c)
    /\ outcome[c].kind = "text"
    /\ Count(log[c], "oauthReq") = 2
    /\ Count(log[c], "recogReq") = 2

\* C16 as stated: when the first recognition request of a call is answered
\* 401, the token the call clears from the cache is the token it sent (or the
\* cache is already empty): never a token another call has put there since.
C16_AsStated ==
  [][\A c \in Calls :
       (pc[c] = "caught" /\ Last(log[c]) = Ev("recogResp", token[c], 401)
          /\ Retry(c)) =>
         /\ Count(log'[c], "invalidate") = 1
         /\ cachedToken \in {NoToken, token[c]}]_vars

\* C17 as stated: in every reachable state the cached token is present
\* exactly when the cached expiry is present.
C17_AsStated == (cachedToken # NoToken) <=> (tokenExpiry # Null)

\* C18 as stated: the step in which the OAuth request of a call fails (no
\* response, a status other than 2xx, or a 2xx body without access_token)
\* leaves the cached token and the cached expiry as they were.
C18_AsStated ==
  [][\A c \in Calls :
       pc[c] = "oauth" =>
         /\ \A st \in Statuses \ {200} :
              OAuthResponse(c, st, FALSE, Absent) => UNCHANGED <<cachedToken, tokenExpiry>>
         /\ \A e \in Expirations :
              OAuthResponse(c, 200, FALSE, e) => UNCHANGED <<cachedToken, tokenExpiry>>]_vars

\* the session operations of a full interrupt, in order
FullInterrupt == <<"markInterrupt", "stop", "stopDone", "clearStopRequested">>

\* s is an initial part of t
IsPrefix(s, t) == Len(s) <= Len(t) /\ SubSeq(t, 1, Len(s)) = s

\* The order of the session operations of a checkInterrupt call and the
\* cases in which there are none; expected is what the call must return
\* for a text that begins with "!" when the session was running.
InterruptProtocol(expected) ==
  /\ IsPrefix(calls, FullInterrupt) \/ calls = <<"markInterrupt", "stop", "stopFailed">>
  /\ (~IsInterrupt(itext) \/ sawRunning # "yes") => calls = << >>
  /\ (ipc = "done" /\ ~IsInterrupt(itext)) => iret = IntrText(itext)
  /\ (ipc = "done" /\ IsInterrupt(itext) /\ sawRunning = "yes" /\ iret.kind # "throw") =>
       /\ calls = FullInterrupt
       /\ iret = IntrText(expected)
  /\ ipc # "done" => iret = IntrNone

\* C19 as stated: for a text beginning with "!" and a running session,
\* markInterrupt, stop, the end of stop and clearStopRequested come in this
\* order before the return of the text without its "!"; a text without "!"
\* is returned unchanged; without "!" or without a running session no
\* session operation is called.
C19_AsStated == InterruptProtocol(SliceOnly(itext))

\* C19 amended: the text returned is the text without its "!" and without
\* the whitespace that follows the "!".
C19_InterruptProtocol == InterruptProtocol(StrippedText(itext))

\* "! a" was sent while the session was running: the four steps were taken
\* in order and "a" was returned
C19_Witness ==
  /\ ipc = "done"
  /\ itext = <<"!", " ", "a">>
  /\ sawRunning = "yes"
  /\ calls = FullInterrupt
  /\ iret = IntrText(<<"a">>)

\* indicator i sends a new typing action in this step
NewAction(i) == tpc[i] # "acting" /\ tpc'[i] = "acting"

\* C20: once stop() has been called the loop of that indicator sends no new
\* typing action and leaves its sleep only by ending, and it does end; while
\* stop() has not been called, a typing action that fails leads to the sleep
\* and the sleep leads to the next typing action, which is sent.
C20_TypingStop ==
  /\ [][\A i \in Indicators :
          /\ stopped[i] => ~NewAction(i)
          /\ (stopped[i] /\ tpc[i] = "sleeping" /\ tpc'[i] # "sleeping") =>
               tpc'[i] = "exited"
          /\ TypingEnds(i, FALSE) => tpc'[i] = "sleeping"
          /\ (~stopped[i] /\ tpc[i] = "sleeping" /\ tpc'[i] # "sleeping") =>
               NewAction(i)
          /\ tpc[i] = "exited" => tpc'[i] = "exited"]_vars
  /\ \A i \in Indicators : []<>(~stopped[i] \/ tpc[i] = "exited")
  /\ \A i \in Indicators :
       []<>(~(tpc[i] = "sleeping" /\ lastFailed[i] /\ ~stopped[i]))

\* one indicator was stopped and its loop has ended; another, not stopped,
\* has sent a new typing action after one that failed
C20_Witness ==
  \E i, j \in Indicators :
    /\ stopped[i]
    /\ tpc[i] = "exited"
    /\ ~stopped[j]
    /\ lastFailed[j]
    /\ tpc[j] = "acting"

====
